---- MODULE Spec2Model ----
(***************************************************************************)
(* A model of the ANiStrm plugin (src/plugins/anistrm/__init__.py):        *)
(*   - the retry decorator and the two fetch functions it wraps,          *)
(*   - the seasonal-bucket computation,                                    *)
(*   - the URL normalisation of __touch_strm_file,                         *)
(*   - the plugin life cycle (init_plugin / stop_service), the jobs of its *)
(*     BackgroundScheduler, the task runs and the strm files they write.   *)
(* Strings that the code inspects are sequences of one-character strings.  *)
(***************************************************************************)
EXTENDS Integers, Sequences, FiniteSets, TLC

VARIABLES
    \* ---- URL normalisation (SpecUrl)
    u_url,        \* file_url handed to __touch_strm_file
    u_written,    \* what the call wrote: <<>> nothing yet, <<"skip">>, <<"write", src_url>>
    \* ---- seasonal buckets (SpecSeason)
    s_year,       \* datetime.now().year
    s_month,      \* datetime.now().month
    s_seasons,    \* <<"none">> or <<"ret", list returned by __get_season_list>>
    \* ---- retry wrapper (SpecRetry)
    r_func,       \* the wrapped function: "latest" or "season"
    r_pc,         \* "loop" | "done"
    r_mtries,     \* mtries
    r_mdelay,     \* mdelay
    r_slept,      \* total seconds slept
    r_log,        \* one entry per invocation of the wrapped function
    r_result,     \* value returned by f_retry
    \* ---- plugin (Spec)
    enabled, cron, onlyonce, fulladd, storageplace,   \* self._enabled ...
    scheduler,    \* self._scheduler: 0 is None, else an index of scheds
    scheds,       \* every BackgroundScheduler created so far
    saved,        \* what update_config persisted last
    task,         \* the execution of __task per job kind
    files,        \* the file system: path -> content
    dirs          \* the directories that exist

urlVars    == <<u_url, u_written>>
seasonVars == <<s_year, s_month, s_seasons>>
retryVars  == <<r_func, r_pc, r_mtries, r_mdelay, r_slept, r_log, r_result>>
pluginVars == <<enabled, cron, onlyonce, fulladd, storageplace, scheduler, scheds,
                saved, task, files, dirs>>
vars == <<u_url, u_written, s_year, s_month, s_seasons,
          r_func, r_pc, r_mtries, r_mdelay, r_slept, r_log, r_result,
          enabled, cron, onlyonce, fulladd, storageplace, scheduler, scheds,
          saved, task, files, dirs>>

(***************************************************************************)
(* Strings                                                                 *)
(***************************************************************************)
MP4TRUE == <<".", "m", "p", "4", "?", "d", "=", "t", "r", "u", "e">>
DMP4    == <<"?", "d", "=", "m", "p", "4">>
MP4     == <<".", "m", "p", "4">>
DTRUE   == <<"?", "d", "=", "t", "r", "u", "e">>

\* str.endswith
EndsWith(s, suf) ==
    /\ Len(suf) <= Len(s)
    /\ SubSeq(s, Len(s) - Len(suf) + 1, Len(s)) = suf

\* s[i:].startswith(sub), i counted from 1
MatchAt(s, sub, i) ==
    /\ i + Len(sub) - 1 <= Len(s)
    /\ SubSeq(s, i, i + Len(sub) - 1) = sub

\* sub in s
Contains(s, sub) == \E i \in 1..(Len(s) + 1) : MatchAt(s, sub, i)

\* str.replace: every non-overlapping occurrence, left to right
RECURSIVE ReplaceFrom(_, _, _, _)
ReplaceFrom(s, old, new, i) ==
    IF i > Len(s) THEN <<>>
    ELSE IF MatchAt(s, old, i)
         THEN new \o ReplaceFrom(s, old, new, i + Len(old))
         ELSE <<s[i]>> \o ReplaceFrom(s, old, new, i + 1)

Replace(s, old, new) == ReplaceFrom(s, old, new, 1)

(***************************************************************************)
(* URL normalisation                                                       *)
(***************************************************************************)
_is_url_format_valid(url) == EndsWith(url, MP4TRUE)

_convert_url_format(url) ==
    IF Contains(url, DMP4) THEN Replace(url, DMP4, MP4TRUE)
    ELSE IF EndsWith(url, MP4) THEN url \o DTRUE
    ELSE url \o MP4TRUE

\* the src_url of __touch_strm_file, for a non-empty file_url
SrcUrl(file_url) ==
    IF _is_url_format_valid(file_url) THEN file_url ELSE _convert_url_format(file_url)

\* lines 228-237 of __touch_strm_file: an empty link is refused, any other link is
\* turned into the src_url that will be written
TouchSrc(file_url) ==
    IF file_url = <<>> THEN <<"skip">> ELSE <<"write", SrcUrl(file_url)>>

(***************************************************************************)
(* SpecUrl: __touch_strm_file's choice of src_url over bounded links       *)
(***************************************************************************)
MaxFrags == 3

Fragments == { <<"a">>, DMP4, MP4, DTRUE, <<"&", "x">> }

RECURSIVE Concats(_)
Concats(n) ==
    IF n = 0 THEN { <<>> }
    ELSE LET p == Concats(n - 1) IN p \cup { x \o f : x \in p, f \in Fragments }

UrlInputs == Concats(MaxFrags)

(***************************************************************************)
(* Seasonal buckets                                                        *)
(***************************************************************************)
BaseYear == 2019
NumYears == 8

Digit(d) == <<"0", "1", "2", "3", "4", "5", "6", "7", "8", "9">>[d + 1]

\* str(n) for n >= 0
RECURSIVE Dec(_)
Dec(n) == IF n < 10 THEN <<Digit(n)>> ELSE Dec(n \div 10) \o <<Digit(n % 10)>>

\* f"{year}-{q}"
SeasonStr(year, q) == Dec(year) \o <<"-">> \o Dec(q)

q_starts == <<1, 4, 7, 10>>

SetMax(S) == CHOOSE x \in S : \A y \in S : y <= x

\* q_starts.index(v), counted from 0 as in the code
IndexOf(v) == (CHOOSE i \in 1..Len(q_starts) : q_starts[i] = v) - 1

PrevYearNoWrap(year) == year

\* prev_year when curr_idx = 0
PrevYearAtWrap(year) == year - 1

__get_season_list(year, month) ==
    LET curr_q   == SetMax({ q_starts[i] : i \in { j \in 1..Len(q_starts) : q_starts[j] <= month } })
        curr_idx == IndexOf(curr_q)
        prev_q   == IF curr_idx = 0 THEN 10 ELSE q_starts[(curr_idx - 1) + 1]
        prev_year == IF curr_idx = 0 THEN PrevYearAtWrap(year) ELSE year
    IN  << SeasonStr(year, curr_q), SeasonStr(prev_year, prev_q) >>

(***************************************************************************)
(* The two fetch functions                                                 *)
(***************************************************************************)
MaxList == 2

RECURSIVE SeqsUpTo(_, _)
SeqsUpTo(S, n) ==
    IF n = 0 THEN { <<>> }
    ELSE LET p == SeqsUpTo(S, n - 1) IN p \cup { Append(x, e) : x \in p, e \in S }

RECURSIVE Flatten(_)
Flatten(ss) == IF ss = <<>> THEN <<>> ELSE Head(ss) \o Flatten(Tail(ss))

\* host names and the scheme are single symbols: the code never looks inside them
Scheme  == "https://"
HostOld == "resources.ani.rip"
HostNew == "openani.an-i.workers.dev"

NameA == <<"A", " ", "1">>
Names == { NameA }

\* urllib.parse.quote(c, safe='') on the characters file names are built from
QuoteChar(c) ==
    CASE c = " " -> <<"%", "2", "0">>
      [] c = "/" -> <<"%", "2", "F">>
      [] c = "?" -> <<"%", "3", "F">>
      [] c = "=" -> <<"%", "3", "D">>
      [] OTHER   -> <<c>>

Quote(name) == Flatten([i \in 1..Len(name) |-> QuoteChar(name[i])])

\* what the directory-listing request of one season can do: raise (the request, a None
\* response or the JSON parsing), answer with another status, or list file names
MaxListing == 1
Listings == SeqsUpTo(Names, MaxListing)
SeasonReplies == { <<"raise">>, <<"status", 404>> } \cup { <<"ok", l>> : l \in Listings }

\* lines 185-195: the entries of one season's listing
SeasonFiles(season, names) ==
    [i \in 1..Len(names) |->
        [title |-> names[i],
         link  |-> <<Scheme, HostNew, "/">> \o season \o <<"/">> \o Quote(names[i]) \o MP4TRUE]]

\* lines 170-200, the body of get_current_season_list: replies[i] is the reply to the
\* request of seasons[i]. Every exception is caught inside the loop, so the body
\* always returns.
RECURSIVE ScanFrom(_, _, _)
ScanFrom(seasons, replies, i) ==
    IF i > Len(seasons) THEN <<>>
    ELSE (IF replies[i][1] = "ok" THEN SeasonFiles(seasons[i], replies[i][2]) ELSE <<>>)
         \o ScanFrom(seasons, replies, i + 1)

get_current_season_list(year, month, replies) ==
    [raised |-> FALSE,
     value  |-> ScanFrom(__get_season_list(year, month), replies, 1),
     reqs   |-> replies]

\* the items of the RSS feed, as (title, link) pairs
LinkA1 == <<Scheme, HostOld, "/">> \o NameA \o DMP4
LinkA2 == <<Scheme, HostOld, "/", "v", "/">> \o NameA \o MP4
RssItems == { [title |-> NameA, link |-> LinkA1], [title |-> NameA, link |-> LinkA2],
              [title |-> NameA, link |-> <<>>] }
Feeds == SeqsUpTo(RssItems, MaxList)
FeedReplies == { <<"raise">> } \cup { <<"ok", f>> : f \in Feeds }

\* lines 203-222, the body of get_latest_list: the request or the XML parsing may raise
get_latest_list(reply) ==
    IF reply[1] = "raise"
    THEN [raised |-> TRUE, value |-> <<>>, reqs |-> <<reply>>]
    ELSE [raised |-> FALSE,
          value  |-> [i \in 1..Len(reply[2]) |->
                        [title |-> reply[2][i].title,
                         link  |-> Replace(reply[2][i].link, <<HostOld>>, <<HostNew>>)]],
          reqs   |-> <<reply>>]

(***************************************************************************)
(* retry(Exception, tries=3, logger=logger, ret=[])                        *)
(***************************************************************************)
tries   == 3
delay   == 3
backoff == 1
ret     == <<>>

TriesKept(mtries) == mtries

\* line 51
TriesAfterFailure(mtries) == mtries - 1

\* one invocation f(*args, **kwargs) of the wrapped function
Invocations(func, year, month) ==
    IF func = "latest"
    THEN { get_latest_list(r) : r \in FeedReplies }
    ELSE { get_current_season_list(year, month, <<r1, r2>>) :
              r1 \in SeasonReplies, r2 \in SeasonReplies }

\* lines 41-52: one turn of the while loop
RetryCall ==
    /\ r_pc = "loop"
    /\ r_mtries > 0
    /\ \E out \in Invocations(r_func, s_year, s_month) :
          /\ r_log' = Append(r_log, out)
          /\ IF out.raised
             THEN /\ r_slept'  = r_slept + r_mdelay
                  /\ r_mtries' = TriesAfterFailure(r_mtries)
                  /\ r_mdelay' = r_mdelay * backoff
                  /\ UNCHANGED <<r_pc, r_result>>
             ELSE /\ r_pc' = "done"
                  /\ r_result' = out.value
                  /\ UNCHANGED <<r_slept, r_mtries, r_mdelay>>
    /\ UNCHANGED <<r_func, urlVars, seasonVars, pluginVars>>

\* lines 53-55: the loop is left with mtries = 0
RetryGiveUp ==
    /\ r_pc = "loop"
    /\ ~(r_mtries > 0)
    /\ r_pc' = "done"
    /\ r_result' = ret
    /\ UNCHANGED <<r_func, r_mtries, r_mdelay, r_slept, r_log, urlVars, seasonVars, pluginVars>>

\* everything f_retry can return for a wrapped function
RECURSIVE RetryResults(_, _, _, _)
RetryResults(func, year, month, mtries) ==
    IF ~(mtries > 0) THEN { ret }
    ELSE LET outs == Invocations(func, year, month)
         IN  { o.value : o \in { x \in outs : ~x.raised } }
             \cup (IF \E o \in outs : o.raised
                   THEN RetryResults(func, year, month, TriesAfterFailure(mtries))
                   ELSE {})

(***************************************************************************)
(* The plugin: configuration, scheduler, jobs                              *)
(***************************************************************************)

CronOk  == "*/20 22,23,0,1 * * *"
Crons   == { "", "not a crontab", CronOk }
Places  == { "/downloads/strm" }
Kinds   == { "cron", "date" }

\* the dicts the host can hand to init_plugin; <<>> is None (or an empty dict)
Configs == [enabled : BOOLEAN, cron : Crons, onlyonce : BOOLEAN, fulladd : BOOLEAN,
            storageplace : Places]
ConfigArgs == { <<>> } \cup { <<c>> : c \in Configs }

\* truthiness of self._cron, and whether CronTrigger.from_crontab accepts it
CronTruthy(c) == c \notin { "None", "" }
CronValid(c)  == c = CronOk

CronJobWithArg(f) == [kind |-> "cron", args |-> <<f>>]

\* lines 110-112: the cron job is added without args, so __task runs with fulladd=False
CronJob(f) == [kind |-> "cron", args |-> <<>>]

\* lines 119-121: the one-shot job carries args=[self._fulladd]
DateJob(f) == [kind |-> "date", args |-> <<f>>]

stop_service_keep_jobs(sch, ss) == [scheduler |-> 0, scheds |-> ss]

\* lines 464-475: remove_all_jobs, shutdown when running, self._scheduler = None
stop_service(sch, ss) ==
    IF sch # 0
    THEN [scheduler |-> 0, scheds |-> SubSeq(ss, 1, sch - 1) \o SubSeq(ss, sch + 1, Len(ss))]
    ELSE [scheduler |-> sch, scheds |-> ss]

OnceKept(o) == o

\* lines 123-124: the one-shot switches are turned off
OnceReset(o) == FALSE

\* lines 452-459
__update_config(en, cr, oo, fa, sp) ==
    [onlyonce |-> oo, cron |-> cr, enabled |-> en, fulladd |-> fa, storageplace |-> sp]

\* an execution of __task: its position, its argument, the strategy it fetched with,
\* rss_info_list, the loop index, cnt, and two history fields: made counts the files
\* this run created (absent before its open, present after), overlap tells whether
\* another run was in progress at any time during this one
IdleTask == [pc |-> "idle", fulladd |-> FALSE, strategy |-> "none", list |-> <<>>,
             idx |-> 0, cnt |-> 0, made |-> 0, overlap |-> FALSE]

Running(k) == task[k].pc # "idle"

\* BackgroundScheduler.shutdown() waits for the jobs that are executing
NoTaskRunning == \A k \in Kinds : ~Running(k)

\* lines 93-130
init_plugin(config) ==
    /\ NoTaskRunning
    /\ LET stopped == stop_service(scheduler, scheds)
           given == config # <<>>
           en == IF given THEN config[1].enabled ELSE enabled
           cr == IF given THEN config[1].cron ELSE cron
           oo == IF given THEN config[1].onlyonce ELSE onlyonce
           fa == IF given THEN config[1].fulladd ELSE fulladd
           sp == IF given THEN config[1].storageplace ELSE storageplace
           jobs1 == IF en /\ CronTruthy(cr) /\ CronValid(cr) THEN <<CronJob(fa)>> ELSE <<>>
           jobs2 == IF oo THEN Append(jobs1, DateJob(fa)) ELSE jobs1
           oo2 == IF oo THEN OnceReset(oo) ELSE oo
           fa2 == IF oo THEN OnceReset(fa) ELSE fa
       IN  /\ enabled' = en
           /\ cron' = cr
           /\ storageplace' = sp
           /\ IF en \/ oo
              THEN /\ onlyonce' = oo2
                   /\ fulladd' = fa2
                   /\ saved' = << __update_config(en, cr, oo2, fa2, sp) >>
                   /\ scheds' = Append(stopped.scheds,
                                       [running |-> jobs2 # <<>>, jobs |-> jobs2])
                   /\ scheduler' = Len(stopped.scheds) + 1
              ELSE /\ onlyonce' = oo
                   /\ fulladd' = fa
                   /\ saved' = saved
                   /\ scheds' = stopped.scheds
                   /\ scheduler' = stopped.scheduler
    /\ UNCHANGED <<task, files, dirs, urlVars, seasonVars, retryVars>>

InitPlugin == \E config \in ConfigArgs : init_plugin(config)

\* the host calls stop_service on its own
StopService ==
    /\ scheduler # 0
    /\ NoTaskRunning
    /\ LET stopped == stop_service(scheduler, scheds)
       IN  scheduler' = stopped.scheduler /\ scheds' = stopped.scheds
    /\ UNCHANGED <<enabled, cron, onlyonce, fulladd, storageplace, saved,
                   task, files, dirs, urlVars, seasonVars, retryVars>>

(***************************************************************************)
(* The task and the strm files                                             *)
(***************************************************************************)
\* f'{self._storageplace}/{file_name}.strm', kept as the pair it is built from
Paths == Places \X Names

\* a path holds <<>> when no file exists there, else <<content>>
Exists(path) == files[path] # <<>>

\* a job of a running scheduler comes due: the executor's pool starts __task on its own
\* thread; a job runs one instance at a time (max_instances = 1), a date job is dropped
\* once it has run. Lines 275-289: __task picks the fetch strategy from its argument and
\* fetches the list through the retry wrapper.
StartTask(k) ==
    /\ ~Running(k)
    /\ \E s \in 1..Len(scheds) :
          /\ scheds[s].running
          /\ \E i \in 1..Len(scheds[s].jobs) :
                LET job == scheds[s].jobs[i]
                    fa  == IF job.args = <<>> THEN FALSE ELSE job.args[1]
                    func == IF ~fa THEN "latest" ELSE "season"
                IN  /\ job.kind = k
                    /\ scheds' = IF k = "date"
                                 THEN [scheds EXCEPT ![s].jobs =
                                         SubSeq(@, 1, i - 1) \o SubSeq(@, i + 1, Len(@))]
                                 ELSE scheds
                    /\ \E l \in RetryResults(func, s_year, s_month, tries) :
                          task' = [j \in Kinds |->
                                     IF j = k
                                     THEN [pc |-> IF l = <<>> THEN "report" ELSE "touch",
                                           fulladd |-> fa,
                                           strategy |-> IF ~fa THEN "rss" ELSE "scan",
                                           list |-> l, idx |-> 1, cnt |-> 0, made |-> 0,
                                           overlap |-> \E o \in Kinds \ {k} : Running(o)]
                                     ELSE IF Running(j) THEN [task[j] EXCEPT !.overlap = TRUE]
                                     ELSE task[j]]
    /\ UNCHANGED <<enabled, cron, onlyonce, fulladd, storageplace, scheduler, saved,
                   files, dirs, urlVars, seasonVars, retryVars>>

\* lines 292-294: __touch_strm_file has returned `created` for the current entry
Advance(t, created) ==
    [t EXCEPT !.idx = @ + 1,
              !.cnt = IF created THEN @ + 1 ELSE @,
              !.pc  = IF t.idx = Len(t.list) THEN "report" ELSE "touch"]

\* lines 228-249: the empty-link test, the src_url, makedirs and the exists test
TouchCheck(k) ==
    /\ task[k].pc = "touch"
    /\ LET t == task[k]
           e == t.list[t.idx]
           path == <<storageplace, e.title>>
       IN  IF TouchSrc(e.link)[1] = "skip"
           THEN /\ task' = [task EXCEPT ![k] = Advance(t, FALSE)]
                /\ UNCHANGED dirs
           ELSE /\ \/ storageplace \in dirs /\ UNCHANGED dirs
                   \/ storageplace \notin dirs /\ dirs' = dirs \cup {storageplace}
                   \/ storageplace \notin dirs /\ UNCHANGED dirs    \* makedirs raised
                /\ task' = [task EXCEPT ![k] =
                              IF Exists(path) THEN Advance(t, FALSE)
                              ELSE [t EXCEPT !.pc = "open"]]
    /\ UNCHANGED <<enabled, cron, onlyonce, fulladd, storageplace, scheduler, scheds, saved,
                   files, urlVars, seasonVars, retryVars>>

\* lines 250-257: open(file_path, 'w') creates or truncates the file, write and close
\* fill it; either may raise
TouchWrite(k) ==
    /\ task[k].pc = "open"
    /\ LET t == task[k]
           e == t.list[t.idx]
           path == <<storageplace, e.title>>
           src == TouchSrc(e.link)[2]
           fresh == IF Exists(path) THEN 0 ELSE 1
       IN  \/ /\ UNCHANGED files                   \* open raised
              /\ task' = [task EXCEPT ![k] = Advance(t, FALSE)]
           \/ /\ storageplace \in dirs             \* written and closed
              /\ files' = [files EXCEPT ![path] = <<src>>]
              /\ task' = [task EXCEPT ![k] = Advance([t EXCEPT !.made = @ + fresh], TRUE)]
           \/ /\ storageplace \in dirs             \* opened, then write or close raised
              /\ files' = [files EXCEPT ![path] = << <<>> >>]
              /\ task' = [task EXCEPT ![k] = Advance([t EXCEPT !.made = @ + fresh], FALSE)]
    /\ UNCHANGED <<enabled, cron, onlyonce, fulladd, storageplace, scheduler, scheds, saved,
                   dirs, urlVars, seasonVars, retryVars>>

\* line 296: the count is logged and the run ends
TaskReport(k) ==
    /\ task[k].pc = "report"
    /\ task' = [task EXCEPT ![k] = IdleTask]
    /\ UNCHANGED <<enabled, cron, onlyonce, fulladd, storageplace, scheduler, scheds, saved,
                   files, dirs, urlVars, seasonVars, retryVars>>

(***************************************************************************)
(* Specifications                                                          *)
(***************************************************************************)
UrlIdle    == u_url = <<>> /\ u_written = <<>>
SeasonIdle == s_year = BaseYear /\ s_month = 1 /\ s_seasons = <<"none">>
RetryIdle  == /\ r_func = "latest" /\ r_pc = "done" /\ r_mtries = 0 /\ r_mdelay = delay
              /\ r_slept = 0 /\ r_log = <<>> /\ r_result = <<>>

\* the plugin object after construction: the class attributes of lines 83-91
PluginInit ==
    /\ enabled = FALSE /\ cron = "None" /\ onlyonce = FALSE /\ fulladd = FALSE
    /\ storageplace = "None"
    /\ scheduler = 0 /\ scheds = <<>>
    /\ saved = <<>>
    /\ task = [k \in Kinds |-> IdleTask]
    /\ files = [p \in Paths |-> <<>>]
    /\ dirs = {}

Init == PluginInit /\ UrlIdle /\ SeasonIdle /\ RetryIdle

Next ==
    \/ InitPlugin
    \/ StopService
    \/ \E k \in Kinds : StartTask(k)
    \/ \E k \in Kinds : TouchCheck(k)
    \/ \E k \in Kinds : TouchWrite(k)
    \/ \E k \in Kinds : TaskReport(k)

Spec == Init /\ [][Next]_vars

\* ---- one call of __touch_strm_file per link
InitUrl == u_url \in UrlInputs /\ u_written = <<>> /\ PluginInit /\ SeasonIdle /\ RetryIdle

TouchUrl ==
    /\ u_written = <<>>
    /\ u_written' = TouchSrc(u_url)
    /\ UNCHANGED <<u_url, seasonVars, retryVars, pluginVars>>

NextUrl == TouchUrl

SpecUrl == InitUrl /\ [][NextUrl]_vars

\* ---- one call of __get_season_list per date
InitSeason ==
    /\ s_year \in BaseYear..(BaseYear + NumYears) /\ s_month \in 1..12
    /\ s_seasons = <<"none">>
    /\ PluginInit /\ UrlIdle /\ RetryIdle

GetSeasonList ==
    /\ s_seasons = <<"none">>
    /\ s_seasons' = <<"ret", __get_season_list(s_year, s_month)>>
    /\ UNCHANGED <<s_year, s_month, urlVars, retryVars, pluginVars>>

NextSeason == GetSeasonList

SpecSeason == InitSeason /\ [][NextSeason]_vars

\* ---- one call of a retry-wrapped fetch function
InitRetry ==
    /\ r_func \in { "latest", "season" }
    /\ r_pc = "loop" /\ r_mtries = tries /\ r_mdelay = delay
    /\ r_slept = 0 /\ r_log = <<>> /\ r_result = <<>>
    /\ s_year = BaseYear /\ s_month \in 1..12 /\ s_seasons = <<"none">>
    /\ PluginInit /\ UrlIdle

NextRetry == RetryCall \/ RetryGiveUp

SpecRetry == InitRetry /\ [][NextRetry]_vars

(***************************************************************************)
(* Properties                                                              *)
(***************************************************************************)
HasJob(ss, job) == \E s \in 1..Len(ss) : \E i \in 1..Len(ss[s].jobs) : ss[s].jobs[i] = job

CountKind(jobs, kind) == Cardinality({ i \in 1..Len(jobs) : jobs[i].kind = kind })

AnyDateJob(ss) == \E s \in 1..Len(ss) : CountKind(ss[s].jobs, "date") > 0

\* C1: once a file <storageplace>/<title>.strm exists, no step of any task run changes
\* its content.
C1_ContentNeverChanges ==
    [][\A p \in Paths : Exists(p) => files'[p] = files[p]]_vars

\* C2: f_retry invokes the wrapped function at most `tries` (3) times, never again after
\* an invocation that did not raise, is never stuck before it returns, returns the value
\* of the first invocation that did not raise, and returns ret (the empty list) when all
\* 3 invocations raised.
C2_RetryBounded ==
    /\ Len(r_log) <= tries
    /\ \A i \in 1..(Len(r_log) - 1) : r_log[i].raised
    /\ r_pc # "done" => ENABLED NextRetry
    /\ r_pc = "done" =>
          IF \E i \in 1..Len(r_log) : ~r_log[i].raised
          THEN ~r_log[Len(r_log)].raised /\ r_result = r_log[Len(r_log)].value
          ELSE Len(r_log) = tries /\ r_result = ret

\* C2 witness: all three invocations raised and the empty list came back.
C2_Witness ==
    /\ r_pc = "done" /\ r_func = "latest" /\ Len(r_log) = 3
    /\ \A i \in 1..3 : r_log[i].raised
    /\ r_result = <<>> /\ r_slept = 9

\* C3: every URL __touch_strm_file decides to write ends with '.mp4?d=true'.
C3_WrittenUrlCanonical ==
    (u_written # <<>> /\ u_written[1] = "write") => EndsWith(u_written[2], MP4TRUE)

\* C4: when a directory-listing request of the seasonal scan raises, the retry wrapper
\* invokes get_current_season_list again.
C4_ScanIsRetried ==
    (/\ r_func = "season" /\ r_pc = "done"
     /\ \E j \in 1..Len(r_log[1].reqs) : r_log[1].reqs[j] = <<"raise">>)
    => Len(r_log) > 1

\* C5: a task run that no other run overlapped processes every entry of its list, and
\* the count it reports is the number of files it created.
C5_CountIsFilesCreated ==
    \A k \in Kinds :
        (task[k].pc = "report" /\ ~task[k].overlap) =>
            /\ task[k].idx = Len(task[k].list) + 1
            /\ task[k].cnt = task[k].made

QuarterStr(q) == CASE q = 1 -> <<"1">> [] q = 4 -> <<"4">> [] q = 7 -> <<"7">>
                   [] q = 10 -> <<"1", "0">>

\* C6: __get_season_list returns exactly two buckets: '<year>-<q>' with q the largest of
\* 1, 4, 7, 10 that is <= the month, then '<year>-<q-3>' when q > 1 and '<year-1>-10'
\* when q = 1.
C6_SeasonBuckets ==
    s_seasons[1] = "ret" =>
        LET L == s_seasons[2]
            q == CHOOSE x \in {1, 4, 7, 10} :
                    x <= s_month /\ \A m \in {1, 4, 7, 10} : m <= s_month => m <= x
        IN  /\ Len(L) = 2
            /\ L[1] = Dec(s_year) \o <<"-">> \o QuarterStr(q)
            /\ L[2] = IF q > 1 THEN Dec(s_year) \o <<"-">> \o QuarterStr(q - 3)
                      ELSE Dec(s_year - 1) \o <<"-", "1", "0">>

\* C6 witness: a date in January to March, where the previous bucket is in the year before.
C6_Witness ==
    /\ s_seasons[1] = "ret" /\ s_month = 3
    /\ s_seasons[2][2] = Dec(s_year - 1) \o <<"-", "1", "0">>

SingleTrigger ==
    /\ Cardinality({ s \in 1..Len(scheds) : scheds[s].running \/ scheds[s].jobs # <<>> }) <= 1
    /\ \A s \in 1..Len(scheds) :
          /\ s # scheduler => ~scheds[s].running /\ scheds[s].jobs = <<>>
          /\ CountKind(scheds[s].jobs, "cron") <= 1
          /\ CountKind(scheds[s].jobs, "date") <= 1
    /\ scheduler = 0 => \A k \in Kinds : ~Running(k)

\* C7: at every moment at most one scheduler is live, it holds at most one cron job and
\* at most one one-shot job, no scheduler other than self._scheduler runs or holds a job
\* (the jobs of earlier init_plugin calls are gone); and an init_plugin call that leaves
\* enabled unset and whose onlyonce is unset leaves no scheduler and no job.
C7_SingleTrigger ==
    /\ SingleTrigger
    /\ [][/\ SingleTrigger'
          /\ task' # task \/ \A c \in ConfigArgs :
                (/\ init_plugin(c)
                 /\ ~enabled'
                 /\ ~(IF c = <<>> THEN onlyonce ELSE c[1].onlyonce))
                => (scheduler' = 0 /\ ~HasJob(scheds', CronJob(fulladd'))
                    /\ ~AnyDateJob(scheds') /\ \A s \in 1..Len(scheds') : ~scheds'[s].running)]_vars

\* C7 witness: an earlier init_plugin call persisted an enabled configuration with a valid
\* cron, a later one came with neither enabled nor onlyonce: nothing is left.
C7_Witness ==
    /\ ~enabled /\ saved # <<>> /\ saved[1].enabled /\ saved[1].cron = CronOk
    /\ scheduler = 0 /\ \A s \in 1..Len(scheds) : ~scheds[s].running /\ scheds[s].jobs = <<>>

\* C8: two executions of __task are never in progress at once.
C8_NoParallelTasks == ~(Running("cron") /\ Running("date"))

\* C9: an init_plugin call with onlyonce=true schedules exactly one one-shot job and
\* persists the configuration with onlyonce=false, fulladd=false and enabled, cron and
\* storageplace as given; an init_plugin call with the persisted configuration schedules
\* no one-shot job.
C9_OnceIsOneShot ==
    [][task' # task \/
       /\ \A c \in Configs :
            (init_plugin(<<c>>) /\ c.onlyonce) =>
                /\ scheduler' # 0
                /\ CountKind(scheds'[scheduler'].jobs, "date") = 1
                /\ saved' = << [c EXCEPT !.onlyonce = FALSE, !.fulladd = FALSE] >>
       /\ (saved # <<>> /\ init_plugin(saved)) => ~AnyDateJob(scheds')]_vars

\* C9 witness: a configuration with onlyonce set and enabled unset was applied: the
\* one-shot job is pending and the persisted switch is off.
C9_Witness ==
    /\ scheduler # 0 /\ CountKind(scheds[scheduler].jobs, "date") = 1
    /\ ~enabled /\ saved # <<>> /\ ~saved[1].onlyonce /\ ~saved[1].enabled

\* C10: only the one-shot run scans, and only when its job was registered by an
\* init_plugin call whose config had onlyonce and fulladd both set; a cron run always
\* pulls the RSS feed; a config with fulladd set and onlyonce unset registers no one-shot
\* job and keeps fulladd set (in the plugin and in what it persists).
C10_StrategyFromArgument ==
    [][/\ \A k \in Kinds :
            /\ task'[k].strategy = "scan" => k = "date"
            /\ (task'[k].strategy = "scan" /\ task[k].strategy # "scan")
                  => HasJob(scheds, DateJob(TRUE))
       /\ task' # task \/
          /\ HasJob(scheds', DateJob(TRUE)) =>
                \E c \in Configs : init_plugin(<<c>>) /\ c.onlyonce /\ c.fulladd
          /\ \A c \in Configs :
                (init_plugin(<<c>>) /\ c.fulladd /\ ~c.onlyonce) =>
                    /\ fulladd'
                    /\ ~AnyDateJob(scheds')
                    /\ enabled' => saved'[1].fulladd]_vars

\* C10 witness: the one-shot run is scanning while a cron run pulls the feed.
C10_Witness ==
    /\ task["date"].strategy = "scan" /\ task["date"].fulladd
    /\ task["cron"].strategy = "rss" /\ ~task["cron"].fulladd

====
